---- MODULE Spec2Model ----
(***************************************************************************)
(* A model of the portfolio front-end: the theme manager (theme.js), the   *)
(* keyboard shortcuts, fetchData and debounce/throttle (utils.js), the     *)
(* contact form, the component renderer with its projects grid and the     *)
(* navigation manager (render.js).  Each subsystem has its own             *)
(* specification over the shared variables; the variables a specification  *)
(* does not drive keep their initial value.                                *)
(***************************************************************************)
EXTENDS Integers, Sequences, FiniteSets, TLC

VARIABLES
    \* ---- browser environment
    localItem,        \* localStorage item 'portfolio-theme' (raw text), Null when absent
    prefersDark,      \* matchMedia('(prefers-color-scheme: dark)').matches
    activeElement,    \* kind of document.activeElement
    \* ---- ThemeManager (theme.js)
    themeManager,     \* window.themeManager has been constructed
    currentTheme,     \* ThemeManager.currentTheme
    dataTheme,        \* data-theme attribute of <html>
    metaThemeColor,   \* content of <meta name="theme-color">
    toggleLabel,      \* aria-label / title of #theme-toggle
    lastSetOk,        \* result of the most recent Utils.storage.set
    \* ---- history of the user's choice (toggleTheme / setTheme calls)
    chosen,           \* theme given by the most recent toggleTheme/setTheme, Null if none
    chosenIn,         \* the page load of that call: "none", "this" or "prev" (the one before)
    chosenStored,     \* whether the storage write of that call succeeded
    everChosen,       \* toggleTheme/setTheme has set a theme in some page load
    \* ---- PortfolioApp (utils.js)
    componentsReady,  \* window.navigationManager && window.componentRenderer
    appPhase,         \* "waiting", "initialized" or "failed"
    ev,               \* the keydown event dispatched last, NoEvent if none
    lang,             \* lang attribute of <html>
    \* ---- ContactFormManager (render.js)
    fieldValue,       \* value of each field of #contact-form
    fieldError,       \* text of the .form__error shown at each field, "" if none
    submitDisabled,   \* submitButton.disabled
    submitLabel,      \* what the submit button shows: "send" or "sending"
    inFlight,         \* data of the submitForm calls not settled yet, oldest first
    \* ---- ComponentRenderer (render.js)
    rendererPhase,    \* "new", "loading" (in loadAllData), "done" (init returned)
    response,         \* per data file: what fetch(url) gave, NoResponse while pending
    fetched,          \* per data file: "pending", or what fetchData resolved to
    dataCache,        \* ComponentRenderer.dataCache: key -> data, Null for no key
    container,        \* content of each section's container
    \* ---- the projects grid (render.js)
    renderedProjects, \* the array rendered by renderProjectsSection, empty before
    filterButtons,    \* the .filter-btn elements: data-filter, filter-btn--active
    projectCards,     \* the .project-card elements: data-company, style.display
    lastClicked,      \* index of the filter button clicked last, 0 if none since rendering
    \* ---- NavigationManager (render.js)
    navigationManager, \* window.navigationManager has been constructed
    scrollY,          \* window.scrollY
    currentSection,   \* NavigationManager.currentSection
    linkActive,       \* per .navbar__link (by href): carries navbar__link--active
    navbarScrolled,   \* .navbar carries navbar--scrolled
    inThrottle,       \* inThrottle of the throttled scroll listener
    handledY,         \* window.scrollY at the most recent handleScroll, -1 if none
    \* ---- a function wrapped by debounce (utils.js)
    timers,           \* the pending setTimeout timers: id, ticks left, arguments
    timeout,          \* the timeout variable of the closure: id of the timer set last
    lastArgs,         \* arguments of the most recent call of the wrapper
    sinceCall,        \* ticks since that call
    invokedArgs,      \* arguments func was invoked with last, Null if never
    invocations,      \* invocations of func since the most recent call of the wrapper
    burstCalls,       \* calls of the wrapper in the present burst (the most recent one)
    \* ---- shared
    calls,            \* calls made by the operation that ran last
    lastOp            \* name of the operation that ran last

themeVars == <<localItem, prefersDark, activeElement, themeManager, currentTheme,
               dataTheme, metaThemeColor, toggleLabel, lastSetOk, chosen, chosenIn,
               chosenStored, everChosen, componentsReady, appPhase, ev, lang>>

formVars == <<fieldValue, fieldError, submitDisabled, submitLabel, inFlight>>

renderVars == <<rendererPhase, response, fetched, dataCache, container>>

projectVars == <<renderedProjects, filterButtons, projectCards, lastClicked>>

navVars == <<navigationManager, scrollY, currentSection, linkActive, navbarScrolled,
             inThrottle, handledY>>

debounceVars == <<timers, timeout, lastArgs, sinceCall, invokedArgs, invocations,
                  burstCalls>>

pageVars == <<projectVars, navVars, debounceVars>>

vars == <<themeVars, formVars, renderVars, pageVars, calls, lastOp>>

Null == "<null>"

(***************************************************************************)
(* Utils.storage: JSON text in localStorage                                *)
(***************************************************************************)
\* The JSON values that occur: theme names and other strings.
JSONStrings == {"light", "dark", "blue"}

JSONstringify(v) == "\"" \o v \o "\""

\* JSON.parse of a raw item: the value, or "throws" for text that is no JSON.
\* getItem of an absent key is null, and JSON.parse(null) is null.
JSONparse(raw) ==
    IF raw = Null \/ raw = "null" THEN [throws |-> FALSE, value |-> Null]
    ELSE IF \E v \in JSONStrings : JSONstringify(v) = raw
         THEN [throws |-> FALSE,
               value |-> CHOOSE v \in JSONStrings : JSONstringify(v) = raw]
         ELSE [throws |-> TRUE, value |-> Null]

StorageGet(item) ==
    LET r == JSONparse(item) IN IF r.throws THEN Null ELSE r.value

\* setItem may throw (quota, disabled storage); ok says whether it did not.
StorageSet(item, value, ok) == IF ok THEN JSONstringify(value) ELSE item

Truthy(v) == v # Null /\ v # ""

(***************************************************************************)
(* ThemeManager                                                            *)
(***************************************************************************)
\* The part of the state ThemeManager's methods read and write, as a record,
\* so that one event can run several methods in a row.
ThemeState ==
    [item |-> localItem, cur |-> currentTheme, attr |-> dataTheme,
     meta |-> metaThemeColor, label |-> toggleLabel, setOk |-> lastSetOk,
     chosen |-> chosen, chosenIn |-> chosenIn, chosenStored |-> chosenStored,
     ever |-> everChosen, fx |-> <<>>]

SetThemeState(S) ==
    /\ localItem' = S.item
    /\ currentTheme' = S.cur
    /\ dataTheme' = S.attr
    /\ metaThemeColor' = S.meta
    /\ toggleLabel' = S.label
    /\ lastSetOk' = S.setOk
    /\ chosen' = S.chosen
    /\ chosenIn' = S.chosenIn
    /\ chosenStored' = S.chosenStored
    /\ everChosen' = S.ever
    /\ calls' = S.fx

Call(fn, a, b) == [fn |-> fn, a |-> a, b |-> b]

getStoredTheme(S) == StorageGet(S.item)

getSystemTheme == IF prefersDark THEN "dark" ELSE "light"

MetaColor(theme) ==
    CASE theme = "light" -> "#ffffff"
      [] theme = "dark" -> "#0f172a"
      [] OTHER -> "undefined"

\* Mutant: applyTheme that leaves localStorage alone.
applyTheme_NoStore(S, theme, ok) ==
    [S EXCEPT !.attr = theme,
              !.cur = theme,
              !.setOk = ok,
              !.meta = MetaColor(theme),
              !.fx = Append(S.fx, Call("dispatchEvent", "themechange", theme))]

applyTheme(S, theme, ok) ==
    [S EXCEPT !.attr = theme,
              !.cur = theme,
              !.item = StorageSet(S.item, theme, ok),
              !.setOk = ok,
              !.meta = MetaColor(theme),
              !.fx = Append(S.fx, Call("dispatchEvent", "themechange", theme))]

updateToggleButton(S) ==
    [S EXCEPT !.label = IF S.cur = "light" THEN "Switch to dark mode"
                        ELSE "Switch to light mode"]

\* Mutant: a toggle that only ever turns the theme dark.
NewTheme_AlwaysDark(cur) == "dark"

NewTheme(cur) == IF cur = "light" THEN "dark" ELSE "light"

toggleTheme(S, ok) ==
    LET newTheme == NewTheme(S.cur)
        A == updateToggleButton(applyTheme(S, newTheme, ok))
    IN [A EXCEPT !.chosen = newTheme, !.chosenIn = "this", !.chosenStored = ok,
                 !.ever = TRUE]

setTheme(S, theme, ok) ==
    IF theme \in {"light", "dark"}
    THEN LET A == updateToggleButton(applyTheme(S, theme, ok))
         IN [A EXCEPT !.chosen = theme, !.chosenIn = "this", !.chosenStored = ok,
                      !.ever = TRUE]
    ELSE S

\* The matchMedia 'change' listener of bindEvents.
OnSystemChange(S, matches, ok) ==
    IF ~Truthy(getStoredTheme(S))
    THEN updateToggleButton(applyTheme(S, IF matches THEN "dark" ELSE "light", ok))
    ELSE S

(***************************************************************************)
(* PortfolioApp keyboard shortcuts                                         *)
(***************************************************************************)
NoEvent == [key |-> Null, ctrlKey |-> FALSE, metaKey |-> FALSE, shiftKey |-> FALSE,
            altKey |-> FALSE, defaultPrevented |-> FALSE]

Keys == {"h", "a", "p", "e", "s", "c", "H", "t", "T", "L", "D", "x"}

\* The modifier combinations tried: none, each shortcut's own, and near misses.
Mod(c, m, s, a) == [ctrlKey |-> c, metaKey |-> m, shiftKey |-> s, altKey |-> a]

ModifierSets ==
    {Mod(FALSE, FALSE, FALSE, FALSE), Mod(FALSE, FALSE, TRUE, FALSE),
     Mod(TRUE, FALSE, FALSE, FALSE), Mod(TRUE, FALSE, TRUE, FALSE),
     Mod(FALSE, TRUE, TRUE, FALSE), Mod(TRUE, FALSE, TRUE, TRUE),
     Mod(FALSE, FALSE, FALSE, TRUE)}

KeyEvents ==
    {[key |-> k, ctrlKey |-> m.ctrlKey, metaKey |-> m.metaKey, shiftKey |-> m.shiftKey,
      altKey |-> m.altKey, defaultPrevented |-> FALSE] : k \in Keys, m \in ModifierSets}

Elements == {"BODY", "INPUT", "TEXTAREA", "EDITABLE"}

\* String.prototype.toLowerCase on the keys that occur.
toLowerCase(k) ==
    CASE k = "H" -> "h"
      [] k = "T" -> "t"
      [] k = "L" -> "l"
      [] k = "D" -> "d"
      [] OTHER -> k

Join(mods) ==
    IF mods = <<>> THEN ""
    ELSE IF Len(mods) = 1 THEN mods[1]
    ELSE IF Len(mods) = 2 THEN mods[1] \o "+" \o mods[2]
    ELSE mods[1] \o "+" \o mods[2] \o "+" \o mods[3]

\* Mutant: getShortcutKey without toLowerCase.
getShortcutKey_NoLower(e) ==
    LET modifiers == (IF e.ctrlKey \/ e.metaKey THEN <<"ctrl">> ELSE <<>>)
                     \o (IF e.shiftKey THEN <<"shift">> ELSE <<>>)
                     \o (IF e.altKey THEN <<"alt">> ELSE <<>>)
    IN IF Len(modifiers) > 0 THEN Join(modifiers) \o "+" \o e.key ELSE e.key

getShortcutKey(e) ==
    LET modifiers == (IF e.ctrlKey \/ e.metaKey THEN <<"ctrl">> ELSE <<>>)
                     \o (IF e.shiftKey THEN <<"shift">> ELSE <<>>)
                     \o (IF e.altKey THEN <<"alt">> ELSE <<>>)
        key == toLowerCase(e.key)
    IN IF Len(modifiers) > 0 THEN Join(modifiers) \o "+" \o key ELSE key

isInputFocused ==
    \/ activeElement = "INPUT"
    \/ activeElement = "TEXTAREA"
    \/ activeElement = "EDITABLE"

\* The shortcuts table of initKeyboardShortcuts: the names it has an entry for.
ShortcutKeys == {"h", "a", "p", "e", "s", "c", "ctrl+shift+t", "ctrl+shift+d"}

\* shortcuts[key](): the entry of the table run on the theme state.
RunShortcut(key, S, ok) ==
    CASE key = "h" -> [S EXCEPT !.fx = Append(S.fx, Call("scrollToElement", "#home", 70))]
      [] key = "a" -> [S EXCEPT !.fx = Append(S.fx, Call("scrollToElement", "#about", 70))]
      [] key = "p" -> [S EXCEPT !.fx = Append(S.fx, Call("scrollToElement", "#projects", 70))]
      [] key = "e" -> [S EXCEPT !.fx = Append(S.fx, Call("scrollToElement", "#experience", 70))]
      [] key = "s" -> [S EXCEPT !.fx = Append(S.fx, Call("scrollToElement", "#skills", 70))]
      [] key = "c" -> [S EXCEPT !.fx = Append(S.fx, Call("scrollToElement", "#contact", 70))]
      [] key = "ctrl+shift+t" -> IF themeManager THEN toggleTheme(S, ok) ELSE S
      [] key = "ctrl+shift+d" ->
            [S EXCEPT !.fx = Append(S.fx,
                Call("showNotification", "Debug info logged to console", 3000))]

\* The keydown listener ThemeManager.bindEvents registers.
ThemeKeyMatches(e) == (e.ctrlKey \/ e.metaKey) /\ e.shiftKey /\ e.key = "T"

\* The keydown listener initKeyboardShortcuts registers.
ShortcutMatches(e) == getShortcutKey(e) \in ShortcutKeys /\ ~isInputFocused

(***************************************************************************)
(* Operations                                                              *)
(***************************************************************************)
appVars == <<componentsReady, appPhase>>

otherVars == <<formVars, renderVars, pageVars>>

themeFields == <<localItem, currentTheme, dataTheme, metaThemeColor, toggleLabel,
                 lastSetOk, chosen, chosenIn, chosenStored, everChosen>>

\* Mutant: a constructor that ignores the stored theme.
InitialTheme_SystemOnly(item) == getSystemTheme

\* this.getStoredTheme() || this.getSystemTheme() of the constructor.
InitialTheme(item) ==
    IF Truthy(StorageGet(item)) THEN StorageGet(item) ELSE getSystemTheme

\* new ThemeManager() on DOMContentLoaded.
Construct(ok) ==
    /\ ~themeManager
    /\ LET S0 == [ThemeState EXCEPT !.cur = InitialTheme(localItem)]
       IN SetThemeState(updateToggleButton(applyTheme(S0, S0.cur, ok)))
    /\ themeManager' = TRUE
    /\ lastOp' = "construct"
    /\ UNCHANGED otherVars
    /\ UNCHANGED <<prefersDark, activeElement, appVars, ev, lang>>

\* A click on #theme-toggle, or a call of toggleTheme().
ToggleTheme(ok) ==
    /\ themeManager
    /\ SetThemeState(toggleTheme(ThemeState, ok))
    /\ lastOp' = "toggleTheme"
    /\ UNCHANGED otherVars
    /\ UNCHANGED <<prefersDark, activeElement, themeManager, appVars, ev, lang>>

\* toggleTheme() twice in a row, nothing in between (what one Ctrl/Cmd+Shift+T
\* keydown does through its two listeners).
ToggleTwice(ok1, ok2) ==
    /\ themeManager
    /\ SetThemeState(toggleTheme(toggleTheme(ThemeState, ok1), ok2))
    /\ lastOp' = "toggleTwice"
    /\ UNCHANGED otherVars
    /\ UNCHANGED <<prefersDark, activeElement, themeManager, appVars, ev, lang>>

\* A call of the public setTheme(theme).
SetTheme(theme, ok) ==
    /\ themeManager
    /\ SetThemeState(setTheme(ThemeState, theme, ok))
    /\ lastOp' = "setTheme"
    /\ UNCHANGED otherVars
    /\ UNCHANGED <<prefersDark, activeElement, themeManager, appVars, ev, lang>>

\* The system colour scheme changes; the listener runs once it is bound.
SystemChange(ok) ==
    /\ prefersDark' = ~prefersDark
    /\ IF themeManager
       THEN SetThemeState(OnSystemChange(ThemeState, ~prefersDark, ok))
       ELSE SetThemeState(ThemeState)
    /\ lastOp' = "systemChange"
    /\ UNCHANGED otherVars
    /\ UNCHANGED <<activeElement, themeManager, appVars, ev, lang>>

\* The page is left and loaded again: localStorage and the system scheme stay.
Reload ==
    /\ themeManager
    /\ themeManager' = FALSE
    /\ currentTheme' = Null
    /\ dataTheme' = Null
    /\ metaThemeColor' = Null
    /\ toggleLabel' = Null
    /\ lastSetOk' = TRUE
    /\ chosenIn' = IF chosenIn = "this" THEN "prev" ELSE "none"
    /\ chosen' = IF chosenIn = "this" THEN chosen ELSE Null
    /\ chosenStored' = IF chosenIn = "this" THEN chosenStored ELSE FALSE
    /\ componentsReady' = FALSE
    /\ appPhase' = "waiting"
    /\ activeElement' = "BODY"
    /\ ev' = NoEvent
    /\ calls' = <<>>
    /\ lastOp' = "load"
    /\ UNCHANGED otherVars
    /\ UNCHANGED <<localItem, prefersDark, everChosen, lang>>

\* render.js has set window.componentRenderer and window.navigationManager.
ComponentsReady ==
    /\ themeManager
    /\ ~componentsReady
    /\ componentsReady' = TRUE
    /\ calls' = <<>>
    /\ lastOp' = "componentsReady"
    /\ UNCHANGED otherVars
    /\ UNCHANGED <<themeFields, prefersDark, activeElement, themeManager, appPhase,
                   ev, lang>>

\* PortfolioApp.init gets past waitForComponents and registers the shortcuts.
AppInit ==
    /\ appPhase = "waiting"
    /\ componentsReady
    /\ appPhase' = "initialized"
    /\ calls' = <<>>
    /\ lastOp' = "appInit"
    /\ UNCHANGED otherVars
    /\ UNCHANGED <<themeFields, prefersDark, activeElement, themeManager,
                   componentsReady, ev, lang>>

\* waitForComponents gives up after maxWaitTime: init stops in its catch.
AppInitTimeout ==
    /\ appPhase = "waiting"
    /\ ~componentsReady
    /\ appPhase' = "failed"
    /\ calls' = <<>>
    /\ lastOp' = "appInitTimeout"
    /\ UNCHANGED otherVars
    /\ UNCHANGED <<themeFields, prefersDark, activeElement, themeManager,
                   componentsReady, ev, lang>>

\* The user moves the focus.
Focus(el) ==
    /\ activeElement # el
    /\ activeElement' = el
    /\ calls' = <<>>
    /\ lastOp' = "focus"
    /\ UNCHANGED otherVars
    /\ UNCHANGED <<themeFields, prefersDark, themeManager, appVars, ev, lang>>

\* A keydown event on document: the listeners run in the order they were added,
\* ThemeManager's (added on DOMContentLoaded) before PortfolioApp's (added by init).
KeyDown(e, ok1, ok2) ==
    LET first == themeManager /\ ThemeKeyMatches(e)
        second == appPhase = "initialized" /\ ShortcutMatches(e)
        S1 == IF first THEN toggleTheme(ThemeState, ok1) ELSE ThemeState
        S2 == IF second THEN RunShortcut(getShortcutKey(e), S1, ok2) ELSE S1
    IN /\ SetThemeState(S2)
       /\ ev' = [e EXCEPT !.defaultPrevented = first \/ second]
       /\ lastOp' = "keydown"
       /\ UNCHANGED otherVars
       /\ UNCHANGED <<prefersDark, activeElement, themeManager, appVars, lang>>

InitialItems == {Null, JSONstringify("light"), JSONstringify("dark"), "light"}

ThemeInit ==
    /\ localItem \in InitialItems
    /\ prefersDark \in BOOLEAN
    /\ activeElement = "BODY"
    /\ themeManager = FALSE
    /\ currentTheme = Null
    /\ dataTheme = Null
    /\ metaThemeColor = Null
    /\ toggleLabel = Null
    /\ lastSetOk = TRUE
    /\ chosen = Null
    /\ chosenIn = "none"
    /\ chosenStored = FALSE
    /\ everChosen = (localItem # Null)
    /\ componentsReady = FALSE
    /\ appPhase = "waiting"
    /\ ev = NoEvent
    /\ lang = "en"

(***************************************************************************)
(* ContactFormManager                                                      *)
(***************************************************************************)
MaxInFlight == 2

\* The fields of #contact-form and their attributes.
Fields == {"name", "email", "subject", "message"}

FieldRequired(f) == f \in {"name", "email", "message"}

FieldType(f) == IF f = "email" THEN "email" ELSE IF f = "message" THEN "textarea" ELSE "text"

\* The minLength property: -1 when the attribute is not set.
FieldMinLength(f) == IF f \in {"subject", "message"} THEN 2 ELSE -1

\* The values tried in each field, as sequences of characters.
FieldInputs(f) ==
    CASE f = "name" -> {<<>>, <<" ">>, <<"a">>}
      [] f = "email" -> {<<>>, <<"a">>, <<"a", "@", "b", ".", "c">>}
      [] f = "subject" -> {<<>>, <<"a">>, <<"a", "b">>}
      [] f = "message" -> {<<>>, <<"a">>, <<" ", "a", "b", " ">>}

IsSpace(c) == c = " "

\* String.prototype.trim
RECURSIVE TrimStart(_)
TrimStart(v) == IF v # <<>> /\ IsSpace(Head(v)) THEN TrimStart(Tail(v)) ELSE v

RECURSIVE TrimEnd(_)
TrimEnd(v) ==
    IF v # <<>> /\ IsSpace(v[Len(v)]) THEN TrimEnd(SubSeq(v, 1, Len(v) - 1)) ELSE v

Trim(v) == TrimEnd(TrimStart(v))

\* [^\s@]+ : a non-empty run of characters that are neither blank nor "@".
EmailRun(v) == v # <<>> /\ \A i \in 1..Len(v) : ~IsSpace(v[i]) /\ v[i] # "@"

\* Utils.isValidEmail: /^[^\s@]+@[^\s@]+\.[^\s@]+$/
isValidEmail(v) ==
    \E i, j \in 1..Len(v) :
        /\ i < j
        /\ v[i] = "@" /\ v[j] = "."
        /\ EmailRun(SubSeq(v, 1, i - 1))
        /\ EmailRun(SubSeq(v, i + 1, j - 1))
        /\ EmailRun(SubSeq(v, j + 1, Len(v)))

\* Mutant: validateField on the value as typed, not trimmed.
validateField_NoTrim(f, v) ==
    LET value == v
        r1 == IF FieldRequired(f) /\ value = <<>>
              THEN [isValid |-> FALSE, errorMessage |-> "This field is required."]
              ELSE [isValid |-> TRUE, errorMessage |-> ""]
        r2 == IF FieldType(f) = "email" /\ value # <<>> /\ ~isValidEmail(value)
              THEN [isValid |-> FALSE,
                    errorMessage |-> "Please enter a valid email address."]
              ELSE r1
        r3 == IF value # <<>> /\ FieldMinLength(f) # 0 /\ Len(value) < FieldMinLength(f)
              THEN [isValid |-> FALSE,
                    errorMessage |-> "Minimum " \o ToString(FieldMinLength(f))
                                     \o " characters required."]
              ELSE r2
    IN [isValid |-> r3.isValid,
        shown |-> IF r3.isValid THEN "" ELSE r3.errorMessage]

\* validateField: whether the field is valid and the message it shows.
validateField(f, v) ==
    LET value == Trim(v)
        r1 == IF FieldRequired(f) /\ value = <<>>
              THEN [isValid |-> FALSE, errorMessage |-> "This field is required."]
              ELSE [isValid |-> TRUE, errorMessage |-> ""]
        r2 == IF FieldType(f) = "email" /\ value # <<>> /\ ~isValidEmail(value)
              THEN [isValid |-> FALSE,
                    errorMessage |-> "Please enter a valid email address."]
              ELSE r1
        r3 == IF value # <<>> /\ FieldMinLength(f) # 0 /\ Len(value) < FieldMinLength(f)
              THEN [isValid |-> FALSE,
                    errorMessage |-> "Minimum " \o ToString(FieldMinLength(f))
                                     \o " characters required."]
              ELSE r2
    IN [isValid |-> r3.isValid,
        shown |-> IF r3.isValid THEN "" ELSE r3.errorMessage]

\* The fields validateForm visits: input[required], textarea[required].
RequiredFields == {f \in Fields : FieldRequired(f)}

\* Mutant: validateForm that stops at the first required field.
validateForm_FirstOnly(values) == validateField("name", values["name"]).isValid

validateForm(values) == \A f \in RequiredFields : validateField(f, values[f]).isValid

\* How submitForm's promise settles: its timer always resolves.
SubmitOutcomes == {"resolve"}

FormInit ==
    /\ fieldValue = [f \in Fields |-> <<>>]
    /\ fieldError = [f \in Fields |-> ""]
    /\ submitDisabled = FALSE
    /\ submitLabel = "send"
    /\ inFlight = 0

\* An 'input' event: the user changes the field; clearFieldError.
FormInput(f, v) ==
    /\ fieldValue[f] # v
    /\ fieldValue' = [fieldValue EXCEPT ![f] = v]
    /\ fieldError' = [fieldError EXCEPT ![f] = ""]
    /\ calls' = <<>>
    /\ lastOp' = "input"
    /\ UNCHANGED <<submitDisabled, submitLabel, inFlight, themeVars, renderVars, pageVars>>

\* A 'blur' event: validateField and showFieldError.
FormBlur(f) ==
    /\ fieldError' = [fieldError EXCEPT ![f] = validateField(f, fieldValue[f]).shown]
    /\ calls' = <<Call("validateField", f,
                      IF validateField(f, fieldValue[f]).isValid THEN "true" ELSE "false")>>
    /\ lastOp' = "blur"
    /\ UNCHANGED <<fieldValue, submitDisabled, submitLabel, inFlight, themeVars,
                   renderVars, pageVars>>

\* handleSubmit up to its await: validateForm shows every required field's
\* error; a valid form goes on to setLoadingState(true) and submitForm.
HandleSubmit ==
    /\ fieldError' = [f \in Fields |->
                        IF f \in RequiredFields
                        THEN validateField(f, fieldValue[f]).shown
                        ELSE fieldError[f]]
    /\ IF validateForm(fieldValue)
       THEN /\ inFlight < MaxInFlight
            /\ submitDisabled' = TRUE
            /\ submitLabel' = "sending"
            /\ inFlight' = inFlight + 1
            /\ calls' = <<Call("submitForm", "data", 2000)>>
       ELSE /\ calls' = <<>>
            /\ UNCHANGED <<submitDisabled, submitLabel, inFlight>>
    /\ lastOp' = "handleSubmit"
    /\ UNCHANGED <<fieldValue, themeVars, renderVars, pageVars>>

\* handleSubmit after its await: the oldest submitForm call settles.
SubmitSettle(outcome) ==
    /\ inFlight > 0
    /\ inFlight' = inFlight - 1
    /\ IF outcome = "resolve"
       THEN /\ calls' = <<Call("showNotification", "Message sent successfully!", 3000)>>
            /\ fieldValue' = [f \in Fields |-> <<>>]
       ELSE /\ calls' = <<Call("showNotification",
                               "Failed to send message. Please try again.", 3000)>>
            /\ UNCHANGED fieldValue
    /\ submitDisabled' = FALSE
    /\ submitLabel' = "send"
    /\ lastOp' = "submitSettle"
    /\ UNCHANGED <<fieldError, themeVars, renderVars, pageVars>>

FormNext ==
    \/ \E f \in Fields : \E v \in FieldInputs(f) : FormInput(f, v)
    \/ \E f \in Fields : FormBlur(f)
    \/ HandleSubmit
    \/ \E outcome \in SubmitOutcomes : SubmitSettle(outcome)

(***************************************************************************)
(* ComponentRenderer                                                       *)
(***************************************************************************)
\* The keys of the six data files, in the order of this.components.
DataKeys == <<"about", "projects", "experience", "skills", "certifications", "contact">>

KeySet == {DataKeys[i] : i \in 1..Len(DataKeys)}

\* What a data file can hold: content of the shape the section's template
\* reads (two versions), or JSON of another shape, on which the template throws.
GoodData == {"v1", "v2"}

BadData == {"misshapen"}

\* What fetch(url) gives: settled is FALSE when the request fails (the promise
\* rejects); otherwise ok is response.ok and body is the text of the body.
Response(settled, ok, body) == [settled |-> settled, ok |-> ok, body |-> body]

NoResponse == Response(FALSE, FALSE, "<pending>")

\* The body texts: one JSON text per value a data file can hold, the JSON text
\* null, and a text that is no JSON.
JSONBody(d) == "{" \o d \o "}"

Bodies == {JSONBody(d) : d \in GoodData \cup BadData} \cup {"null", "<!DOCTYPE html>"}

\* How a fetch ends: a network error, a non-OK status (whose body may well be
\* JSON), or an OK status with any of the bodies.
FetchOutcomes ==
    {Response(FALSE, FALSE, ""), Response(TRUE, FALSE, JSONBody("v1"))}
        \cup {Response(TRUE, TRUE, b) : b \in Bodies}

\* response.json(): rejects on a body that is no JSON, else the parsed value.
responseJson(body) ==
    IF body = "null" THEN [throws |-> FALSE, value |-> Null]
    ELSE IF \E d \in GoodData \cup BadData : body = JSONBody(d)
         THEN [throws |-> FALSE,
               value |-> CHOOSE d \in GoodData \cup BadData : body = JSONBody(d)]
         ELSE [throws |-> TRUE, value |-> Null]

\* Mutant: fetchData without the response.ok test.
fetchDataResult_NoStatusCheck(resp) ==
    IF ~resp.settled THEN [rejects |-> FALSE, value |-> Null]
    ELSE IF responseJson(resp.body).throws THEN [rejects |-> FALSE, value |-> Null]
    ELSE [rejects |-> FALSE, value |-> responseJson(resp.body).value]

\* Utils.fetchData: whether the promise rejects, and what it resolves to.
\* Everything thrown inside the try is caught and turned into null.
fetchDataResult(resp) ==
    IF ~resp.settled THEN [rejects |-> FALSE, value |-> Null]
    ELSE IF ~resp.ok THEN [rejects |-> FALSE, value |-> Null]
    ELSE IF responseJson(resp.body).throws THEN [rejects |-> FALSE, value |-> Null]
    ELSE [rejects |-> FALSE, value |-> responseJson(resp.body).value]

fetchData(resp) == fetchDataResult(resp).value

Static == "static"

Fallback == "fallback"

Rendered(d) == "rendered:" \o d

\* A render function reads the cache; with no data it returns at once.
RenderThrows(cache, k) == cache[k] \in BadData

\* Mutant: a render function that draws its section from the about data.
RenderSection_AboutData(cache, cont, k) ==
    IF cache[k] = Null \/ RenderThrows(cache, k) THEN cont[k]
    ELSE IF cache["about"] = Null THEN cont[k] ELSE Rendered(cache["about"])

\* The container of section k after its render function ran.
RenderSection(cache, cont, k) ==
    IF cache[k] = Null \/ RenderThrows(cache, k) THEN cont[k] ELSE Rendered(cache[k])

\* if (data) this.dataCache.set(key, data)
CacheSet(cache, k, data) == IF Truthy(data) THEN [cache EXCEPT ![k] = data] ELSE cache

RenderInit ==
    /\ rendererPhase = "new"
    /\ response = [k \in KeySet |-> NoResponse]
    /\ fetched = [k \in KeySet |-> "pending"]
    /\ dataCache = [k \in KeySet |-> Null]
    /\ container = [k \in KeySet |-> Static]

\* componentRenderer.init() starts: loadAllData issues the six fetches.
RendererInit ==
    /\ rendererPhase = "new"
    /\ rendererPhase' = "loading"
    /\ calls' = <<>>
    /\ lastOp' = "rendererInit"
    /\ UNCHANGED <<response, fetched, dataCache, container, themeVars, formVars, pageVars>>

\* One fetchData promise settles and its continuation fills the cache.
FetchSettle(k, outcome) ==
    /\ rendererPhase = "loading"
    /\ fetched[k] = "pending"
    /\ response' = [response EXCEPT ![k] = outcome]
    /\ IF fetchDataResult(outcome).rejects
       THEN /\ fetched' = [fetched EXCEPT ![k] = "rejected"]
            /\ UNCHANGED dataCache
       ELSE /\ fetched' = [fetched EXCEPT ![k] = fetchData(outcome)]
            /\ dataCache' = CacheSet(dataCache, k, fetchData(outcome))
    /\ calls' = <<>>
    /\ lastOp' = "fetchSettle"
    /\ UNCHANGED <<rendererPhase, container, themeVars, formVars, pageVars>>

\* Promise.all(promises) resolves: renderAllComponents calls the six render
\* functions; if one of them threw, init's catch runs renderFallbackContent,
\* otherwise initScrollAnimations runs.
RenderAll ==
    /\ rendererPhase = "loading"
    /\ \A k \in KeySet : fetched[k] # "pending"
    /\ LET loaded == \A k \in KeySet : fetched[k] # "rejected"
           drawn == IF loaded
                    THEN [k \in KeySet |-> RenderSection(dataCache, container, k)]
                    ELSE container
           threw == \/ ~loaded
                    \/ \E k \in KeySet : dataCache[k] # Null /\ RenderThrows(dataCache, k)
       IN /\ container' = IF threw THEN [drawn EXCEPT !["about"] = Fallback] ELSE drawn
          /\ calls' = IF threw THEN <<Call("renderFallbackContent", "", 0)>>
                      ELSE <<Call("initScrollAnimations", "", 0)>>
    /\ rendererPhase' = "done"
    /\ lastOp' = "renderAll"
    /\ UNCHANGED <<response, fetched, dataCache, themeVars, formVars, pageVars>>

RenderNext ==
    \/ RendererInit
    \/ \E k \in KeySet, outcome \in FetchOutcomes : FetchSettle(k, outcome)
    \/ RenderAll

(***************************************************************************)
(* ComponentRenderer: the projects grid and its company filters            *)
(***************************************************************************)
MaxProjects == 4

Companies == {"Acme", "Globex", "Initech"}

Project(company) == [company |-> company]

\* The arrays projects.json can hold.
ProjectLists ==
    UNION {[1..n -> {Project(c) : c \in Companies}] : n \in 0..MaxProjects}

\* Mutant: no deduplication of the companies.
UniqueCompanies_All(projects) == [i \in 1..Len(projects) |-> projects[i].company]

\* [...new Set(projects.map(project => project.company))]: the companies in
\* the order of their first occurrence.
RECURSIVE UniqueCompanies(_)
UniqueCompanies(projects) ==
    IF projects = <<>> THEN <<>>
    ELSE LET front == UniqueCompanies(SubSeq(projects, 1, Len(projects) - 1))
             last == projects[Len(projects)].company
         IN IF \E i \in 1..Len(front) : front[i] = last
            THEN front
            ELSE Append(front, last)

\* generateProjectFilters: one button per company, the first one active.
generateProjectFilters(projects) ==
    LET companies == UniqueCompanies(projects)
    IN [i \in 1..Len(companies) |->
           [filter |-> companies[i], active |-> (i = 1)]]

\* The cards written into #projects-grid; display is the inline style, "" if unset.
ProjectCardsOf(projects) ==
    [i \in 1..Len(projects) |-> [company |-> projects[i].company, display |-> ""]]

\* applyProjectFilter
applyProjectFilter(cards, filter) ==
    [i \in 1..Len(cards) |->
        [cards[i] EXCEPT !.display = IF cards[i].company = filter
                                     THEN "block" ELSE "none"]]

\* initProjectFiltering, the part that runs at once: the first button's filter.
initProjectFiltering(buttons, cards) ==
    IF Len(buttons) > 0 THEN applyProjectFilter(cards, buttons[1].filter) ELSE cards

ProjectsInit ==
    /\ renderedProjects = <<>>
    /\ filterButtons = <<>>
    /\ projectCards = <<>>
    /\ lastClicked = 0

\* renderProjectsSection with data in the cache under 'projects' (at init, or
\* by updateData and refreshComponent afterwards).
RenderProjectsSection(data) ==
    /\ renderedProjects' = data
    /\ filterButtons' = generateProjectFilters(data)
    /\ projectCards' = initProjectFiltering(generateProjectFilters(data),
                                            ProjectCardsOf(data))
    /\ lastClicked' = 0
    /\ calls' = <<>>
    /\ lastOp' = "renderProjects"
    /\ UNCHANGED <<themeVars, formVars, renderVars, navVars, debounceVars>>

\* The click listener of the i-th filter button.
FilterClick(i) ==
    /\ i \in 1..Len(filterButtons)
    /\ filterButtons' = [j \in 1..Len(filterButtons) |->
                            [filterButtons[j] EXCEPT !.active = (j = i)]]
    /\ projectCards' = applyProjectFilter(projectCards, filterButtons[i].filter)
    /\ lastClicked' = i
    /\ calls' = <<>>
    /\ lastOp' = "filterClick"
    /\ UNCHANGED <<renderedProjects, themeVars, formVars, renderVars, navVars, debounceVars>>

ProjectsNext ==
    \/ \E data \in ProjectLists : RenderProjectsSection(data)
    \/ \E i \in 1..MaxProjects : FilterClick(i)

(***************************************************************************)
(* NavigationManager                                                       *)
(***************************************************************************)
\* The section[id] elements in document order, with their offsetTop and
\* offsetHeight: home and about follow each other, a gap lies before projects,
\* skills lies inside projects, and the footer below is no section.
Section(id, top, height) == [id |-> id, offsetTop |-> top, offsetHeight |-> height]

Sections ==
    << Section("home", 0, 300), Section("about", 300, 300),
       Section("projects", 700, 300), Section("skills", 800, 100) >>

\* The href of each .navbar__link.
NavLinks == {"#home", "#about", "#projects", "#skills", "blog.html"}

\* The values window.scrollY takes.
ScrollPositions == {0, 40, 60, 200, 450, 600, 660, 900}

\* this.navbar.offsetHeight
NavbarHeight == 70

ActiveOffset == 100

ScrolledAbove == 50

\* The classes the markup gives the links: none active, or the first one.
MarkupLinkClasses ==
    { [l \in NavLinks |-> FALSE], [l \in NavLinks |-> l = "#home"] }

NavState == [cur |-> currentSection, links |-> linkActive, scrolled |-> navbarScrolled]

\* The sections.forEach loop of updateActiveNavLink over the first n sections.
RECURSIVE ActiveSectionUpTo(_, _)
ActiveSectionUpTo(scrollPosition, n) ==
    IF n = 0 THEN ""
    ELSE LET section == Sections[n]
             sectionTop == section.offsetTop
             sectionHeight == section.offsetHeight
         IN IF scrollPosition >= sectionTop /\ scrollPosition < sectionTop + sectionHeight
            THEN section.id
            ELSE ActiveSectionUpTo(scrollPosition, n - 1)

\* activeSection as updateActiveNavLink computes it at scroll position y.
ActiveSection(y) == ActiveSectionUpTo(y + NavbarHeight + ActiveOffset, Len(Sections))

updateActiveNavLink(S, y) ==
    IF ActiveSection(y) # S.cur
    THEN [S EXCEPT !.cur = ActiveSection(y),
                   !.links = [l \in NavLinks |-> l = "#" \o ActiveSection(y)]]
    ELSE S

handleScroll(S, y) == updateActiveNavLink([S EXCEPT !.scrolled = (y > ScrolledAbove)], y)

SetNavState(S) ==
    /\ currentSection' = S.cur
    /\ linkActive' = S.links
    /\ navbarScrolled' = S.scrolled

NavInit ==
    /\ navigationManager = FALSE
    /\ scrollY \in ScrollPositions
    /\ currentSection = ""
    /\ linkActive \in MarkupLinkClasses
    /\ navbarScrolled = FALSE
    /\ inThrottle = FALSE
    /\ handledY = -1

\* new NavigationManager(): currentSection = '', bindEvents, handleScroll.
NavConstruct ==
    /\ ~navigationManager
    /\ navigationManager' = TRUE
    /\ SetNavState(handleScroll([NavState EXCEPT !.cur = ""], scrollY))
    /\ handledY' = scrollY
    /\ calls' = <<>>
    /\ lastOp' = "navConstruct"
    /\ UNCHANGED <<scrollY, inThrottle>>
    /\ UNCHANGED <<themeVars, formVars, renderVars, projectVars, debounceVars>>

\* A scroll event with the page at y: the throttled listener runs handleScroll
\* unless inThrottle is set, and then sets it for the next 100 ms.
Scroll(y) ==
    /\ y # scrollY
    /\ scrollY' = y
    /\ IF navigationManager /\ ~inThrottle
       THEN /\ SetNavState(handleScroll(NavState, y))
            /\ handledY' = y
            /\ inThrottle' = TRUE
       ELSE UNCHANGED <<currentSection, linkActive, navbarScrolled, handledY, inThrottle>>
    /\ calls' = <<>>
    /\ lastOp' = "scroll"
    /\ UNCHANGED navigationManager
    /\ UNCHANGED <<themeVars, formVars, renderVars, projectVars, debounceVars>>

\* setTimeout(() => inThrottle = false, limit) fires.
ThrottleTimeout ==
    /\ inThrottle
    /\ inThrottle' = FALSE
    /\ calls' = <<>>
    /\ lastOp' = "throttleTimeout"
    /\ UNCHANGED <<navigationManager, scrollY, currentSection, linkActive,
                   navbarScrolled, handledY>>
    /\ UNCHANGED <<themeVars, formVars, renderVars, projectVars, debounceVars>>

NavNext ==
    \/ NavConstruct
    \/ \E y \in ScrollPositions : Scroll(y)
    \/ ThrottleTimeout

(***************************************************************************)
(* debounce                                                                *)
(***************************************************************************)
\* wait, in clock ticks.
Wait == 4

\* No more calls than this in one burst.
MaxBurst == 3

\* No more timers than this are pending at a time.
MaxTimers == 2

\* The arguments the debounced function is called with.
Args == {"a", "b", "c"}

NoTimeout == 0

TimerIds == 1..MaxTimers

Timer(id, left, args) == [id |-> id, left |-> left, args |-> args]

\* Mutant: clearTimeout that cancels nothing.
clearTimeout_Nothing(ts, id) == ts

\* clearTimeout(id): the timer is dropped if it is still pending.
clearTimeout(ts, id) == {t \in ts : t.id # id}

\* setTimeout hands out an id no pending timer has.
FreshId(ts) == CHOOSE id \in TimerIds : \A t \in ts : t.id # id

\* A call of the wrapper is waiting for its timer.
Pending == timers # {}

DebounceInit ==
    /\ timers = {}
    /\ timeout = NoTimeout
    /\ lastArgs = Null
    /\ sinceCall = 0
    /\ invokedArgs = Null
    /\ invocations = 0
    /\ burstCalls = 0

\* executedFunction(...args): clearTimeout(timeout); timeout = setTimeout(later, wait).
Debounced(args) ==
    /\ Cardinality(clearTimeout(timers, timeout)) < MaxTimers
    /\ Pending => burstCalls < MaxBurst
    /\ burstCalls' = IF Pending THEN burstCalls + 1 ELSE 1
    /\ LET kept == clearTimeout(timers, timeout)
       IN /\ timers' = kept \cup {Timer(FreshId(kept), Wait, args)}
          /\ timeout' = FreshId(kept)
    /\ lastArgs' = args
    /\ sinceCall' = 0
    /\ invocations' = 0
    /\ calls' = <<>>
    /\ lastOp' = "debounced"
    /\ UNCHANGED invokedArgs
    /\ UNCHANGED <<themeVars, formVars, renderVars, projectVars, navVars>>

\* A timer comes due and runs later(): clearTimeout(timeout); func(...args).
Later(t) ==
    /\ t \in timers
    /\ t.left = 0
    /\ timers' = clearTimeout(timers \ {t}, timeout)
    /\ invokedArgs' = t.args
    /\ invocations' = invocations + 1
    /\ calls' = <<Call("func", t.args, sinceCall)>>
    /\ lastOp' = "later"
    /\ UNCHANGED <<timeout, lastArgs, sinceCall, burstCalls>>
    /\ UNCHANGED <<themeVars, formVars, renderVars, projectVars, navVars>>

\* One tick of the clock passes; a timer that is due runs first.
Tick ==
    /\ \A t \in timers : t.left > 0
    /\ timers # {} \/ sinceCall <= Wait
    /\ timers' = {Timer(t.id, t.left - 1, t.args) : t \in timers}
    /\ sinceCall' = IF sinceCall <= Wait THEN sinceCall + 1 ELSE sinceCall
    /\ calls' = <<>>
    /\ lastOp' = "tick"
    /\ UNCHANGED <<timeout, lastArgs, invokedArgs, invocations, burstCalls>>
    /\ UNCHANGED <<themeVars, formVars, renderVars, projectVars, navVars>>

DebounceNext ==
    \/ \E args \in Args : Debounced(args)
    \/ \E t \in timers : Later(t)
    \/ Tick

PageInit == ProjectsInit /\ NavInit /\ DebounceInit

\* The page loaded at its top, with no link marked active in the markup.
TopOfPage == scrollY = 0 /\ linkActive = [l \in NavLinks |-> FALSE]

Init ==
    /\ ThemeInit /\ FormInit /\ RenderInit /\ PageInit /\ TopOfPage
    /\ calls = <<>> /\ lastOp = "load"

ThemeNext ==
    \/ \E ok \in BOOLEAN : Construct(ok)
    \/ \E ok \in BOOLEAN : ToggleTheme(ok)
    \/ \E ok1, ok2 \in BOOLEAN : ToggleTwice(ok1, ok2)
    \/ \E theme \in JSONStrings, ok \in BOOLEAN : SetTheme(theme, ok)
    \/ \E ok \in BOOLEAN : SystemChange(ok)
    \/ Reload

\* The keyboard specification runs with a storage that takes every write.
KeysNext ==
    \/ Construct(TRUE)
    \/ ToggleTheme(TRUE)
    \/ ComponentsReady
    \/ AppInit
    \/ AppInitTimeout
    \/ \E el \in Elements : Focus(el)
    \/ \E e \in KeyEvents : KeyDown(e, TRUE, TRUE)

\* The theme manager over page loads.
SpecTheme == Init /\ [][ThemeNext]_vars

\* One page load with the keyboard.
SpecKeys == Init /\ [][KeysNext]_vars

\* The form and the renderer do not read the theme: their specifications start
\* from one storage and one system scheme.
FreshBrowser ==
    /\ ThemeInit /\ localItem = Null /\ ~prefersDark
    /\ FormInit
    /\ RenderInit
    /\ PageInit /\ TopOfPage
    /\ calls = <<>>
    /\ lastOp = "load"

\* A page load at any scroll position (the browser restores it on a reload)
\* and with either markup.
NavLoad ==
    /\ ThemeInit /\ localItem = Null /\ ~prefersDark
    /\ FormInit
    /\ RenderInit
    /\ PageInit
    /\ calls = <<>>
    /\ lastOp = "load"

\* The projects grid.
SpecProjects == FreshBrowser /\ [][ProjectsNext]_vars

\* The navigation manager with the scroll events.
SpecNav == NavLoad /\ [][NavNext]_vars

\* The same, where the timer of the throttled listener fires in the end.
SpecNavFair == SpecNav /\ WF_vars(ThrottleTimeout)

\* A debounced function: the clock goes on and a timer that is due fires.
SpecDebounce ==
    FreshBrowser /\ [][DebounceNext]_vars
        /\ WF_vars(Tick) /\ WF_vars(\E t \in timers : Later(t))

\* The contact form.
SpecForm == FreshBrowser /\ [][FormNext]_vars

\* The component renderer's init.
SpecRender == FreshBrowser /\ [][RenderNext]_vars

(***************************************************************************)
(* Claims about the theme manager (SpecTheme)                              *)
(***************************************************************************)
Themes == {"light", "dark"}

\* C1: once the ThemeManager is constructed, and after any toggleTheme, setTheme
\* or system colour-scheme change, the data-theme attribute, currentTheme and the
\* value stored under 'portfolio-theme' are equal, provided the storage write
\* succeeded.
C1_ThemeInSync ==
    (themeManager /\ lastSetOk) =>
        /\ dataTheme = currentTheme
        /\ StorageGet(localItem) = currentTheme
        /\ localItem = JSONstringify(currentTheme)

C1_Witness ==
    /\ themeManager /\ lastSetOk
    /\ lastOp = "systemChange"
    /\ chosenIn = "this"
    /\ currentTheme = "dark" /\ dataTheme = "dark"
    /\ localItem = JSONstringify("dark")
    /\ ~prefersDark

\* C3 (as claimed): on a system colour-scheme change the theme switches to the
\* matching theme when toggleTheme and setTheme were never called, and stays as
\* it is when one of them was.
C3_SystemChangeFollowsPreference ==
    [][(lastOp' = "systemChange" /\ themeManager) =>
          IF ~everChosen
          THEN currentTheme' = (IF prefersDark' THEN "dark" ELSE "light")
          ELSE currentTheme' = currentTheme]_vars

BothInitialized == themeManager /\ appPhase = "initialized"

CtrlOrCmdShift(e, key) ==
    (e.ctrlKey \/ e.metaKey) /\ e.shiftKey /\ ~e.altKey /\ e.key = key

Unmodified(e) == ~e.ctrlKey /\ ~e.metaKey /\ ~e.shiftKey /\ ~e.altKey

\* C2 (as claimed): with ThemeManager and PortfolioApp initialized and no input
\* focused, one Ctrl/Cmd+Shift+T keydown leaves the theme the other one of
\* light and dark.
C2_KeyTogglesTheme ==
    [][(lastOp' = "keydown" /\ BothInitialized /\ ~isInputFocused
        /\ CtrlOrCmdShift(ev', "T")) =>
          (currentTheme' \in Themes /\ currentTheme' # currentTheme)]_vars

\* The section each navigation key stands for in the README.
SectionOf(k) ==
    CASE k = "h" -> "#home"
      [] k = "a" -> "#about"
      [] k = "p" -> "#projects"
      [] k = "e" -> "#experience"
      [] k = "s" -> "#skills"
      [] k = "c" -> "#contact"

NavKeys == {"h", "a", "p", "e", "s", "c"}

ScrollCalls(cs) == {i \in 1..Len(cs) : cs[i].fn = "scrollToElement"}

\* C6: with PortfolioApp initialized, no modifier held and no input focused, a
\* keydown of H, A, P, E, S or C asks for exactly one scroll, to the key's
\* section with offset 70, and prevents the default action; any other
\* unmodified key asks for no scroll.
C6_NavigationKeys ==
    [][(lastOp' = "keydown" /\ appPhase = "initialized" /\ ~isInputFocused
        /\ Unmodified(ev')) =>
          IF toLowerCase(ev'.key) \in NavKeys
          THEN /\ calls' = <<Call("scrollToElement", SectionOf(toLowerCase(ev'.key)), 70)>>
               /\ ev'.defaultPrevented
          ELSE ScrollCalls(calls') = {}]_vars

C6_Witness ==
    /\ lastOp = "keydown"
    /\ appPhase = "initialized" /\ ~isInputFocused
    /\ Unmodified(ev) /\ ev.key = "e" /\ ev.defaultPrevented
    /\ calls = <<Call("scrollToElement", "#experience", 70)>>

\* C7 (as claimed): a Ctrl/Cmd+Shift+L keydown changes the page language.
C7_KeyTogglesLanguage ==
    [][(lastOp' = "keydown" /\ BothInitialized /\ ~isInputFocused
        /\ CtrlOrCmdShift(ev', "L")) => lang' # lang]_vars

(***************************************************************************)
(* Claims about the contact form (SpecForm)                                *)
(***************************************************************************)
\* Whether the trimmed value of every required field passes the three checks.
EveryRequiredFieldPasses ==
    \A f \in Fields : FieldRequired(f) => validateField(f, fieldValue[f]).isValid

SubmitFormCalled(cs) == \E i \in 1..Len(cs) : cs[i].fn = "submitForm"

\* C8: handleSubmit calls submitForm only when every required field passes
\* validateField; when one fails it submits nothing, leaves the submit button
\* as it is, shows no notification and does not reset the form.
C8_InvalidFormNotSubmitted ==
    [][lastOp' = "handleSubmit" =>
          /\ SubmitFormCalled(calls') => EveryRequiredFieldPasses
          /\ ~EveryRequiredFieldPasses =>
                /\ calls' = <<>>
                /\ inFlight' = inFlight
                /\ submitDisabled' = submitDisabled
                /\ submitLabel' = submitLabel
                /\ fieldValue' = fieldValue]_vars

C8_Witness ==
    /\ lastOp = "handleSubmit"
    /\ fieldValue["name"] = <<"a">>
    /\ fieldValue["email"] = <<"a">>
    /\ fieldError["email"] = "Please enter a valid email address."
    /\ fieldError["message"] = "This field is required."
    /\ calls = <<>> /\ inFlight = 0 /\ ~submitDisabled /\ submitLabel = "send"

\* C9 (as claimed): the submit button is disabled for as long as a submission
\* is in flight.
C9_DisabledWhileInFlight == inFlight > 0 => submitDisabled

(***************************************************************************)
(* Claims about the component renderer (SpecRender)                        *)
(***************************************************************************)
FetchSucceeded(k) == fetched[k] \in GoodData \cup BadData

SomeRenderThrew == \E k \in KeySet : dataCache[k] \in BadData

C11_FallbackWhenAboutUnavailable ==
    (rendererPhase = "done"
     /\ (~response["about"].settled \/ ~response["about"].ok)) =>
        container["about"] = Fallback


(***************************************************************************)
(* Claims about the projects grid (SpecProjects)                           *)
(***************************************************************************)
ActiveButtons == {i \in 1..Len(filterButtons) : filterButtons[i].active}

CompaniesIn(ps) == {ps[i].company : i \in 1..Len(ps)}

\* C12: after renderProjectsSection with at least one project and any filter
\* clicks, exactly one filter button is active (that of the first project's
\* company at first, the one clicked last afterwards), there is one button per
\* distinct company, and a card is displayed exactly when its data-company is
\* the active button's data-filter.
C12_OneActiveFilter ==
    Len(renderedProjects) >= 1 =>
        /\ Cardinality(ActiveButtons) = 1
        /\ ActiveButtons = {IF lastClicked = 0 THEN 1 ELSE lastClicked}
        /\ lastClicked = 0 => filterButtons[1].filter = renderedProjects[1].company
        /\ Len(filterButtons) = Cardinality(CompaniesIn(renderedProjects))
        /\ {filterButtons[i].filter : i \in 1..Len(filterButtons)}
              = CompaniesIn(renderedProjects)
        /\ Len(projectCards) = Len(renderedProjects)
        /\ \A i \in 1..Len(projectCards) :
              /\ projectCards[i].company = renderedProjects[i].company
              /\ \A b \in ActiveButtons :
                    /\ projectCards[i].company = filterButtons[b].filter
                          => projectCards[i].display = "block"
                    /\ projectCards[i].company # filterButtons[b].filter
                          => projectCards[i].display = "none"

C12_Witness ==
    /\ lastOp = "filterClick"
    /\ Len(renderedProjects) = 4
    /\ Len(filterButtons) = 2
    /\ lastClicked = 2 /\ filterButtons[2].active /\ ~filterButtons[1].active
    /\ projectCards[1].display = "none"
    /\ projectCards[2].display = "block"
    /\ projectCards[3].display = "none"
    /\ projectCards[4].display = "block"


(***************************************************************************)
(* Claims about the navigation manager (SpecNav, SpecNavFair)              *)
(***************************************************************************)
\* C13 (as claimed): once the NavigationManager is constructed, a navbar link
\* is active exactly when its href is '#' followed by currentSection, and
\* currentSection is the last section in document order that contains the
\* scroll position of the most recent handleScroll, '' if there is none.
C13_ActiveLinkIsCurrentSection ==
    navigationManager =>
        /\ currentSection = ActiveSection(handledY)
        /\ \A l \in NavLinks : linkActive[l] <=> (l = "#" \o currentSection)


(***************************************************************************)
(* Claims about fetchData (SpecRender)                                     *)
(***************************************************************************)
Settled == {k \in KeySet : fetched[k] # "pending"}

BodyParses(resp) == \E d \in GoodData \cup BadData \cup {Null} : resp.body = 
    (IF d = Null THEN "null" ELSE JSONBody(d))

\* C14: fetchData never rejects; it resolves to the parsed JSON body when the
\* response is OK and the body parses, and to null when the request fails, the
\* status is not OK or the body is no JSON.
C14_FetchDataNeverRejects ==
    \A k \in Settled :
        /\ fetched[k] # "rejected"
        /\ (response[k].settled /\ response[k].ok /\ BodyParses(response[k]))
              => \/ response[k].body = "null" /\ fetched[k] = Null
                 \/ response[k].body = JSONBody(fetched[k])
        /\ (~response[k].settled \/ ~response[k].ok \/ ~BodyParses(response[k]))
              => fetched[k] = Null

C14_Witness ==
    /\ rendererPhase = "loading"
    /\ ~response["about"].settled /\ fetched["about"] = Null
    /\ response["projects"] = Response(TRUE, FALSE, JSONBody("v1"))
    /\ fetched["projects"] = Null
    /\ response["skills"] = Response(TRUE, TRUE, "<!DOCTYPE html>")
    /\ fetched["skills"] = Null
    /\ response["contact"] = Response(TRUE, TRUE, JSONBody("v2"))
    /\ fetched["contact"] = "v2"
    /\ response["experience"] = Response(TRUE, TRUE, "null")
    /\ fetched["experience"] = Null


(***************************************************************************)
(* Claims about validateField (SpecForm)                                   *)
(***************************************************************************)
HasMinLength(f) == FieldMinLength(f) > 0

\* What the three rules ask of a field's trimmed value.
FieldRulesHold(f, value) ==
    /\ ~FieldRequired(f) \/ value # <<>>
    /\ FieldType(f) # "email" \/ value = <<>> \/ isValidEmail(value)
    /\ ~HasMinLength(f) \/ value = <<>> \/ Len(value) >= FieldMinLength(f)

\* C15: validateField returns true exactly when the field's trimmed value is
\* non-empty if the field is required, is empty or matches the email pattern if
\* the field is of type email, and is empty or at least minLength long if the
\* field has a minLength; the field shows an error message exactly when the
\* result is false.
C15_ValidateFieldRules ==
    [][lastOp' = "blur" =>
          \E f \in Fields :
              /\ Len(calls') = 1
              /\ calls'[1].fn = "validateField" /\ calls'[1].a = f
              /\ (calls'[1].b = "true") <=> FieldRulesHold(f, Trim(fieldValue[f]))
              /\ (fieldError'[f] # "") <=> (calls'[1].b = "false")]_vars

C15_Witness ==
    /\ lastOp = "blur"
    /\ calls = <<Call("validateField", "message", "true")>>
    /\ fieldValue["message"] = <<" ", "a", "b", " ">>
    /\ fieldError["message"] = ""
    /\ fieldError["subject"] = "Minimum 2 characters required."
    /\ fieldError["email"] = "Please enter a valid email address."
    /\ fieldError["name"] = "This field is required."
    /\ fieldValue["name"] = <<" ">>


(***************************************************************************)
(* Claims about keys pressed in an input (SpecKeys)                        *)
(***************************************************************************)
\* C16 (as claimed): while an INPUT, a TEXTAREA or a contentEditable element
\* has the focus, a keydown that matches a keyboard shortcut asks for no
\* scroll, leaves the theme as it is and does not prevent the default action.
C16_NoShortcutWhileTyping ==
    [][(lastOp' = "keydown" /\ isInputFocused /\ getShortcutKey(ev') \in ShortcutKeys) =>
          /\ ScrollCalls(calls') = {}
          /\ currentTheme' = currentTheme
          /\ dataTheme' = dataTheme
          /\ ~ev'.defaultPrevented]_vars


(***************************************************************************)
(* Claims about debounce (SpecDebounce)                                    *)
(***************************************************************************)
\* C17: func is not invoked while calls of the wrapper keep arriving less than
\* wait apart; after the last call of a burst it is invoked exactly once, wait
\* after that call and with that call's arguments.
C17_DebounceInvokesOnceAfterBurst ==
    /\ [][lastOp' = "later" =>
             /\ sinceCall = Wait
             /\ invocations = 0 /\ invocations' = 1
             /\ invokedArgs' = lastArgs
             /\ ~Pending']_vars
    /\ [](invocations <= 1)
    /\ [](sinceCall < Wait => invocations = 0)
    /\ []((lastArgs # Null /\ invocations = 0) => Pending)
    /\ [](Pending => <>(invocations = 1 \/ sinceCall = 0))

C17_Witness ==
    /\ lastOp = "later"
    /\ burstCalls = MaxBurst
    /\ lastArgs = "b" /\ invokedArgs = "b"
    /\ invocations = 1
    /\ sinceCall = Wait
    /\ timers = {}


(***************************************************************************)
(* Claims about the throttled scroll listener (SpecNavFair)                *)
(***************************************************************************)
\* C18 (as claimed): after the last scroll event of a burst the navigation
\* manager in the end runs handleScroll for the position the page came to rest
\* at, so that currentSection and navbar--scrolled belong to that position:
\* whenever the manager is constructed, a state follows where the most recent
\* handleScroll was run for the present scroll position.
C18_RestPositionHandled ==
    []<>(navigationManager =>
            /\ handledY = scrollY
            /\ currentSection = ActiveSection(scrollY)
            /\ navbarScrolled = (scrollY > ScrolledAbove))

=============================================================================
